---- MODULE Spec2Model ----
(***************************************************************************)
(* Model of the entity identifier of herabit/pillar (src/entity.rs,        *)
(* src/entity/index.rs, src/entity/generation.rs, src/entity/data.rs).     *)
(*                                                                         *)
(* Fixed-width integers are sequences of bytes, most significant byte      *)
(* first (a u32 is 4 bytes, a u64 is 8 bytes), so that every value keeps   *)
(* its real width.  A memory image is a sequence of bytes in address       *)
(* order; to_ne_bytes / from_ne_bytes relate the two under the target's    *)
(* endianness, and every mem::transmute of the source is a store to and a  *)
(* load from a memory image.                                               *)
(***************************************************************************)
EXTENDS Integers, Sequences, FiniteSets, TLC

VARIABLES
    target_endian,         \* cfg(target_endian): "little" or "big"
    target_pointer_width,  \* width of usize / isize in bits
    e,                     \* the Entity under test: [bits |-> NonZero<u64>]
    written,               \* the index and generation last given to e
    res                    \* the last operation: its name, inputs and result

vars == <<target_endian, target_pointer_width, e, written, res>>

----------------------------------------------------------------------------
(* Bounds of the model.                                                    *)

\* canonical index values 0..MaxSmallIndex are among the inputs
MaxSmallIndex == 1
\* generations 0..MaxSmallGen are among the inputs
MaxSmallGen == 2

----------------------------------------------------------------------------
(* Byte-sequence arithmetic (core integer semantics).                      *)

None == [some |-> FALSE]
Some(x) == [some |-> TRUE, val |-> x]

Ok(x) == [ok |-> TRUE, val |-> x]
Err == [ok |-> FALSE]

\* the outcome of an operation that panics
Panic == [panic |-> TRUE]

Zeros(n) == [j \in 1..n |-> 0]

Reverse(s) == [j \in 1..Len(s) |-> s[Len(s) + 1 - j]]

Front(s) == SubSeq(s, 1, Len(s) - 1)
Last(s) == s[Len(s)]

IsZero(s) == \A k \in 1..Len(s) : s[k] = 0

\* the n-byte integer with value k (0 <= k < 2^31)
RECURSIVE FromNat(_, _)
FromNat(k, n) == IF n = 0 THEN <<>> ELSE FromNat(k \div 256, n - 1) \o <<k % 256>>

\* the n-byte integer 2^(8n) - 1 - k (0 <= k < 256)
FromTop(k, n) == [j \in 1..n |-> IF j = n THEN 255 - k ELSE 255]

\* u32::wrapping_add(v, 1), for any width
RECURSIVE wrapping_add_1(_)
wrapping_add_1(s) ==
    IF s = <<>> THEN <<>>
    ELSE IF Last(s) = 255 THEN wrapping_add_1(Front(s)) \o <<0>>
    ELSE Front(s) \o <<Last(s) + 1>>

\* v - 1 on a non-zero integer (the subtraction cannot underflow)
RECURSIVE sub_1(_)
sub_1(s) ==
    IF s = <<>> THEN <<>>
    ELSE IF Last(s) = 0 THEN sub_1(Front(s)) \o <<255>>
    ELSE Front(s) \o <<Last(s) - 1>>

\* a < b as unsigned integers of the same width
Lt(a, b) ==
    \E k \in 1..Len(a) : a[k] < b[k] /\ \A j \in 1..(k - 1) : a[j] = b[j]

Le(a, b) == a = b \/ Lt(a, b)

\* Ordering of a.cmp(&b) on unsigned integers
Cmp(a, b) == IF Lt(a, b) THEN "Less" ELSE IF a = b THEN "Equal" ELSE "Greater"

\* number of significant bits of a byte
BitLenByte(b) == CHOOSE n \in 0..8 : b < 2^n /\ (n = 0 \/ b >= 2^(n - 1))

\* number of significant bits of an unsigned integer
RECURSIVE BitLen(_)
BitLen(s) ==
    IF s = <<>> THEN 0
    ELSE IF Head(s) = 0 THEN BitLen(Tail(s))
    ELSE 8 * (Len(s) - 1) + BitLenByte(Head(s))

\* the value of s in n bytes (s must fit)
Resize(s, n) ==
    IF Len(s) <= n THEN Zeros(n - Len(s)) \o s
    ELSE SubSeq(s, Len(s) - n + 1, Len(s))

to_ne_bytes(v) == IF target_endian = "big" THEN v ELSE Reverse(v)
from_ne_bytes(m) == IF target_endian = "big" THEN m ELSE Reverse(m)

----------------------------------------------------------------------------
(* src/entity/generation.rs                                                *)

U32_MAX == FromTop(0, 4)

EntityGen_from_bits(bits) == Some([bits |-> bits])

EntityGen_to_bits(g) == g.bits

EntityGen_new(generation) == EntityGen_from_bits(generation)

EntityGen_get(g) == EntityGen_to_bits(g)

EntityGen_MIN == EntityGen_new(FromNat(0, 4)).val

EntityGen_MAX == EntityGen_new(U32_MAX).val

----------------------------------------------------------------------------
(* src/entity/index.rs                                                     *)

\* mutant: the bits are not checked to be non-zero
EntityIndex_from_bits_unchecked(bits) == Some([bits |-> bits])

\* NonZero::new(bits): None for 0
EntityIndex_from_bits(bits) ==
    IF IsZero(bits) THEN None ELSE Some([bits |-> bits])

EntityIndex_to_bits(i) == i.bits

\* index.wrapping_add(1): u32::MAX wraps to zero and is rejected
EntityIndex_new(index) == EntityIndex_from_bits(wrapping_add_1(index))

\* mutant: the offset of one is not taken off again
EntityIndex_get_no_offset(i) == i.bits

EntityIndex_get(i) == sub_1(i.bits)

EntityIndex_MIN == EntityIndex_new(FromNat(0, 4)).val

\* mutant: u32::MAX - 1 taken as the bit representation, not as the index
EntityIndex_MAX_as_bits == EntityIndex_from_bits(sub_1(U32_MAX)).val

EntityIndex_MAX == EntityIndex_new(sub_1(U32_MAX)).val

EntityIndex_PLACEHOLDER == EntityIndex_MAX

EntityIndex_is_placeholder(i) == i = EntityIndex_PLACEHOLDER

EntityIndex_cmp(a, b) == Cmp(EntityIndex_get(a), EntityIndex_get(b))

----------------------------------------------------------------------------
(* src/entity/data.rs: the layout of EntityData and RawData.               *)

\* mutant: the little-endian field order on every target
EntityData_fields_no_cfg == <<"generation", "index">>

\* the 4-byte fields in declaration order (repr(C); _align has size zero)
EntityData_fields ==
    IF target_endian = "big" THEN <<"index", "generation">>
    ELSE <<"generation", "index">>

\* offset_of!(EntityData, field)
offset_of(field) == IF EntityData_fields[1] = field THEN 0 ELSE 4

\* the u32 stored at byte offset off of a memory image
load_u32(mem, off) == from_ne_bytes(SubSeq(mem, off + 1, off + 4))

\* the memory image after storing the u32 v at byte offset off
store_u32(mem, off, v) ==
    SubSeq(mem, 1, off) \o to_ne_bytes(v) \o SubSeq(mem, off + 5, Len(mem))

\* the memory image of an EntityData / RawData value
EntityData_bytes(d) ==
    store_u32(store_u32(Zeros(8), offset_of("index"), d.index.bits),
              offset_of("generation"), d.generation.bits)

\* the EntityData that a memory image holds
EntityData_at(mem) ==
    [index |-> [bits |-> load_u32(mem, offset_of("index"))],
     generation |-> [bits |-> load_u32(mem, offset_of("generation"))]]

\* RawData::decode: mem::transmute::<u64, RawData>
RawData_decode(bits) ==
    LET mem == to_ne_bytes(bits) IN
    [index |-> load_u32(mem, offset_of("index")),
     generation |-> load_u32(mem, offset_of("generation"))]

\* RawData::encode: mem::transmute::<RawData, u64>
RawData_encode(raw) ==
    from_ne_bytes(store_u32(store_u32(Zeros(8), offset_of("index"), raw.index),
                            offset_of("generation"), raw.generation))

----------------------------------------------------------------------------
(* src/entity.rs                                                           *)

\* mem::transmute::<EntityData, Entity>
Entity_new(index, generation) ==
    [bits |-> from_ne_bytes(EntityData_bytes(
                  [index |-> index, generation |-> generation]))]

\* &*(self as *const Entity as *const EntityData)
Entity_data(ent) == EntityData_at(to_ne_bytes(ent.bits))

\* mutant: the canonical index value in the upper half
Entity_to_bits_canonical(ent) ==
    EntityIndex_get(Entity_data(ent).index) \o EntityGen_get(Entity_data(ent).generation)

\* mem::transmute::<Entity, EntityData>, then mem::transmute::<EntityData, u64>
Entity_to_bits(ent) == from_ne_bytes(EntityData_bytes(Entity_data(ent)))

\* mutant: the index subfield read as a canonical value
Entity_from_bits_canonical(bits) ==
    LET raw == RawData_decode(bits)
        index == EntityIndex_new(raw.index)
        generation == EntityGen_new(raw.generation)
    IN  IF index.some /\ generation.some
        THEN Some(Entity_new(index.val, generation.val))
        ELSE None

\* mutant: the index is not validated
Entity_from_bits_unchecked(bits) ==
    LET raw == RawData_decode(bits)
    IN  Some(Entity_new([bits |-> raw.index], [bits |-> raw.generation]))

Entity_from_bits(bits) ==
    LET raw == RawData_decode(bits)
        index == EntityIndex_from_bits(raw.index)
        generation == EntityGen_from_bits(raw.generation)
    IN  IF index.some /\ generation.some
        THEN Some(Entity_new(index.val, generation.val))
        ELSE None

Entity_index(ent) == Entity_data(ent).index

Entity_generation(ent) == Entity_data(ent).generation

Entity_PLACEHOLDER == Entity_new(EntityIndex_PLACEHOLDER, EntityGen_MIN)

Entity_default == Entity_PLACEHOLDER

\* mutant: the index written at its little-endian offset on every target
Entity_set_index_le(ent, index) ==
    [bits |-> from_ne_bytes(store_u32(to_ne_bytes(ent.bits), 4, index.bits))]

\* ent.index = index through data_mut() / DerefMut
Entity_set_index(ent, index) ==
    [bits |-> from_ne_bytes(store_u32(to_ne_bytes(ent.bits),
                                      offset_of("index"), index.bits))]

\* ent.generation = generation through data_mut() / DerefMut
Entity_set_generation(ent, generation) ==
    [bits |-> from_ne_bytes(store_u32(to_ne_bytes(ent.bits),
                                      offset_of("generation"), generation.bits))]

Entity_lt(a, b) == Lt(Entity_to_bits(a), Entity_to_bits(b))

Entity_le(a, b) == Le(Entity_to_bits(a), Entity_to_bits(b))

Entity_gt(a, b) == Lt(Entity_to_bits(b), Entity_to_bits(a))

Entity_ge(a, b) == Le(Entity_to_bits(b), Entity_to_bits(a))

Entity_cmp(a, b) == Cmp(Entity_to_bits(a), Entity_to_bits(b))

Entity_partial_cmp(a, b) == Some(Entity_cmp(a, b))

\* From<(EntityGen, EntityIndex)>
Entity_from_gen_index(value) == Entity_new(value[2], value[1])

\* From<(EntityIndex, EntityGen)>
Entity_from_index_gen(value) == Entity_new(value[1], value[2])

----------------------------------------------------------------------------
(* src/entity/index.rs: conversions between EntityIndex and the integer    *)
(* types.  A value of an integer type is [ty, neg, mag]: its type, its     *)
(* sign and its magnitude in the bytes of the type's width.                *)

IntTypes == {"u8", "u16", "u32", "u64", "u128", "usize",
             "i8", "i16", "i32", "i64", "i128", "isize"}

IsSigned(ty) == ty \in {"i8", "i16", "i32", "i64", "i128", "isize"}

BitsOf(ty) ==
    CASE ty \in {"u8", "i8"} -> 8
      [] ty \in {"u16", "i16"} -> 16
      [] ty \in {"u32", "i32"} -> 32
      [] ty \in {"u64", "i64"} -> 64
      [] ty \in {"u128", "i128"} -> 128
      [] ty \in {"usize", "isize"} -> target_pointer_width

\* the number of bits of ty::MAX
ValueBits(ty) == BitsOf(ty) - (IF IsSigned(ty) THEN 1 ELSE 0)

\* try_from!(..) instantiations: TryFrom<$ty> for EntityIndex
TryFromTypes == {"u32", "u64", "u128", "usize",
                 "i8", "i16", "i32", "i64", "i128", "isize"}

\* from!(..) instantiations: From<$ty> for EntityIndex
FromTypes == {"u8", "u16"}

\* try_into!(..) instantiations: TryFrom<EntityIndex> for $ty
TryIntoTypes == {"u8", "u16", "usize", "i8", "i16", "i32", "isize"}

\* mutant: the sign of the value is dropped
u32_try_from_unsigned_abs(value) ==
    IF BitLen(value.mag) <= 32 THEN Ok(Resize(value.mag, 4)) ELSE Err

\* u32::try_from(value): fails for a negative value and above u32::MAX
u32_try_from(value) ==
    IF ~value.neg /\ BitLen(value.mag) <= 32
    THEN Ok(Resize(value.mag, 4))
    ELSE Err

\* mutant: a truncating cast (v as $ty)
int_cast_u32(ty, v) ==
    Ok([ty |-> ty, neg |-> FALSE,
        mag |-> Resize(Resize(v, BitsOf(ty) \div 8), BitsOf(ty) \div 8)])

\* $ty::try_from(v) for a u32 v: fails above $ty::MAX
int_try_from_u32(ty, v) ==
    IF BitLen(v) <= ValueBits(ty)
    THEN Ok([ty |-> ty, neg |-> FALSE, mag |-> Resize(v, BitsOf(ty) \div 8)])
    ELSE Err

\* opt.ok_or(error)
ok_or(opt) == IF opt.some THEN Ok(opt.val) ELSE Err

\* opt.unwrap()
unwrap(opt) == IF opt.some THEN opt.val ELSE Panic

\* impl TryFrom<$ty> for EntityIndex
EntityIndex_try_from(value) ==
    LET r == u32_try_from(value) IN
    IF r.ok THEN ok_or(EntityIndex_new(r.val)) ELSE Err

\* impl From<$ty> for EntityIndex (u8, u16): value.into() widens to u32
EntityIndex_from(value) == unwrap(EntityIndex_new(Resize(value.mag, 4)))

\* impl TryFrom<EntityIndex> for $ty
Int_try_from_EntityIndex(ty, value) == int_try_from_u32(ty, EntityIndex_get(value))

----------------------------------------------------------------------------
(* Inputs.                                                                 *)

\* 2^k as an n-byte integer
Pow2(k, n) == [j \in 1..n |-> IF j = n - (k \div 8) THEN 2^(k % 8) ELSE 0]

\* magnitudes, 16 bytes wide: small values, 300, and the values around the
\* limits of every integer type
Mags ==
    {FromNat(k, 16) : k \in 0..MaxSmallIndex}
    \cup {FromNat(5, 16), FromNat(300, 16)}
    \cup {Pow2(k, 16) : k \in {7, 8, 15, 16, 31, 32, 63, 64, 127}}
    \cup {sub_1(Pow2(k, 16)) : k \in {7, 8, 15, 16, 31, 32, 63, 64, 127}}
    \cup {Resize(sub_1(U32_MAX), 16), FromTop(0, 16)}

\* the values of the integer type ty among the inputs
ValuesOf(ty) ==
    {[ty |-> ty, neg |-> FALSE, mag |-> Resize(m, BitsOf(ty) \div 8)] :
        m \in {x \in Mags : BitLen(x) <= ValueBits(ty)}}
    \cup
    {[ty |-> ty, neg |-> TRUE, mag |-> Resize(m, BitsOf(ty) \div 8)] :
        m \in {x \in Mags : /\ IsSigned(ty)
                            /\ ~IsZero(x)
                            /\ \/ BitLen(x) <= ValueBits(ty)
                               \/ x = Pow2(ValueBits(ty), 16)}}

\* the u32 inputs of the index operations
U32Inputs == {Resize(m, 4) : m \in {x \in Mags : BitLen(x) <= 32}}

\* the canonical index values the entities are built from
IndexInputs ==
    {FromNat(k, 4) : k \in 0..MaxSmallIndex}
    \cup {FromNat(5, 4), FromNat(255, 4)}
    \cup {sub_1(U32_MAX), U32_MAX}

\* the generation values the entities are built from
GenInputs ==
    {FromNat(k, 4) : k \in 0..MaxSmallGen}
    \cup {U32_MAX}

Indices == {EntityIndex_new(v).val : v \in {x \in IndexInputs : EntityIndex_new(x).some}}

Gens == {EntityGen_new(v).val : v \in GenInputs}

\* the 64-bit words given to Entity::from_bits
U64Inputs == {hi \o lo : hi \in IndexInputs, lo \in GenInputs}

PointerWidths == {16, 32, 64}

----------------------------------------------------------------------------
(* The state machine.                                                      *)

Init ==
    /\ target_endian \in {"little", "big"}
    /\ target_pointer_width \in PointerWidths
    /\ e = Entity_default
    /\ written = [index |-> EntityIndex_PLACEHOLDER, generation |-> EntityGen_MIN]
    /\ res = [op |-> "default"]

target == <<target_endian, target_pointer_width>>

\* let e = Entity::new(index, generation)
New ==
    \E index \in Indices, generation \in Gens :
        /\ e' = Entity_new(index, generation)
        /\ written' = [index |-> index, generation |-> generation]
        /\ res' = [op |-> "new", index |-> index, generation |-> generation]
        /\ UNCHANGED target

\* let e = Entity::default()
Default ==
    /\ e' = Entity_default
    /\ written' = [index |-> EntityIndex_PLACEHOLDER, generation |-> EntityGen_MIN]
    /\ res' = [op |-> "default"]
    /\ UNCHANGED target

\* let e = Entity::from((index, generation))
FromIndexGen ==
    \E index \in Indices, generation \in Gens :
        /\ e' = Entity_from_index_gen(<<index, generation>>)
        /\ written' = [index |-> index, generation |-> generation]
        /\ res' = [op |-> "from_index_gen", index |-> index, generation |-> generation]
        /\ UNCHANGED target

\* let e = Entity::from((generation, index))
FromGenIndex ==
    \E index \in Indices, generation \in Gens :
        /\ e' = Entity_from_gen_index(<<generation, index>>)
        /\ written' = [index |-> index, generation |-> generation]
        /\ res' = [op |-> "from_gen_index", index |-> index, generation |-> generation]
        /\ UNCHANGED target

\* e.index = index
SetIndex ==
    \E index \in Indices :
        /\ e' = Entity_set_index(e, index)
        /\ written' = [written EXCEPT !.index = index]
        /\ res' = [op |-> "set_index", before |-> e, index |-> index]
        /\ UNCHANGED target

\* e.generation = generation
SetGeneration ==
    \E generation \in Gens :
        /\ e' = Entity_set_generation(e, generation)
        /\ written' = [written EXCEPT !.generation = generation]
        /\ res' = [op |-> "set_generation", before |-> e, generation |-> generation]
        /\ UNCHANGED target

\* e.to_bits()
ToBits ==
    /\ res' = [op |-> "to_bits", ent |-> e, out |-> Entity_to_bits(e)]
    /\ UNCHANGED <<target, e, written>>

\* Entity::from_bits(bits)
FromBits ==
    \E bits \in U64Inputs :
        /\ res' = [op |-> "from_bits", bits |-> bits, out |-> Entity_from_bits(bits)]
        /\ UNCHANGED <<target, e, written>>

\* Entity::from_bits(e.to_bits())
RoundTrip ==
    /\ res' = [op |-> "round_trip", ent |-> e,
               out |-> Entity_from_bits(Entity_to_bits(e))]
    /\ UNCHANGED <<target, e, written>>

\* the comparisons of e with Entity::new(index, generation)
Compare ==
    \E index \in Indices, generation \in Gens :
        LET b == Entity_new(index, generation) IN
        /\ res' = [op |-> "compare", a |-> e, b |-> b,
                   lt |-> Entity_lt(e, b), le |-> Entity_le(e, b),
                   gt |-> Entity_gt(e, b), ge |-> Entity_ge(e, b),
                   cmp |-> Entity_cmp(e, b),
                   partial_cmp |-> Entity_partial_cmp(e, b)]
        /\ UNCHANGED <<target, e, written>>

Next ==
    \/ New
    \/ Default
    \/ FromIndexGen
    \/ FromGenIndex
    \/ SetIndex
    \/ SetGeneration
    \/ ToBits
    \/ FromBits
    \/ RoundTrip
    \/ Compare

Spec == Init /\ [][Next]_vars

\* EntityIndex::new(index)
IndexNew ==
    \E index \in U32Inputs :
        /\ res' = [op |-> "index_new", index |-> index, out |-> EntityIndex_new(index)]
        /\ UNCHANGED <<target, e, written>>

\* EntityIndex::from_bits(bits)
IndexFromBits ==
    \E bits \in U32Inputs :
        /\ res' = [op |-> "index_from_bits", bits |-> bits,
                   out |-> EntityIndex_from_bits(bits)]
        /\ UNCHANGED <<target, e, written>>

\* EntityIndex::try_from(value)
IndexTryFrom ==
    \E ty \in TryFromTypes : \E value \in ValuesOf(ty) :
        /\ res' = [op |-> "index_try_from", value |-> value,
                   out |-> EntityIndex_try_from(value)]
        /\ UNCHANGED <<target, e, written>>

\* EntityIndex::from(value)
IndexFrom ==
    \E ty \in FromTypes : \E value \in ValuesOf(ty) :
        /\ res' = [op |-> "index_from", value |-> value,
                   out |-> EntityIndex_from(value)]
        /\ UNCHANGED <<target, e, written>>

\* $ty::try_from(index)
IndexTryInto ==
    \E ty \in TryIntoTypes : \E v \in U32Inputs :
        /\ EntityIndex_new(v).some
        /\ res' = [op |-> "index_try_into", ty |-> ty, index |-> EntityIndex_new(v).val,
                   out |-> Int_try_from_EntityIndex(ty, EntityIndex_new(v).val)]
        /\ UNCHANGED <<target, e, written>>

NextIndex ==
    \/ IndexNew
    \/ IndexFromBits
    \/ IndexTryFrom
    \/ IndexFrom
    \/ IndexTryInto

SpecIndex == Init /\ [][NextIndex]_vars

----------------------------------------------------------------------------
(* Properties.                                                             *)

\* bits [63:32] and bits [31:0] of a 64-bit word
Upper(bits) == SubSeq(bits, 1, 4)
Lower(bits) == SubSeq(bits, 5, 8)

\* the canonical index and generation values of an entity
IndexOf(ent) == EntityIndex_get(Entity_index(ent))
GenOf(ent) == EntityGen_get(Entity_generation(ent))

\* (index, generation) of a below (index, generation) of b, lexicographically
LexLt(a, b) ==
    \/ Lt(IndexOf(a), IndexOf(b))
    \/ IndexOf(a) = IndexOf(b) /\ Lt(GenOf(a), GenOf(b))

LexEq(a, b) == IndexOf(a) = IndexOf(b) /\ GenOf(a) = GenOf(b)

\* ty::MAX, 16 bytes wide
MaxOf(ty) == sub_1(Pow2(ValueBits(ty), 16))

\* C1: Entity::from_bits(e.to_bits()) is Some(e), with the index and the
\* generation that e was built from.
C1_RoundTrip ==
    res.op = "round_trip" =>
        /\ res.out = Some(res.ent)
        /\ Entity_index(res.out.val) = written.index
        /\ Entity_generation(res.out.val) = written.generation

C1_Witness ==
    /\ res.op = "round_trip"
    /\ res.out = Some(e)
    /\ written.index = EntityIndex_MAX
    /\ written.generation = EntityGen_MAX

\* C2 as stated: Entity::from_bits(bits) is None iff bits [63:32] are
\* 0xFFFFFFFF, and bits = 0 decodes to Some.
C2_Original ==
    res.op = "from_bits" =>
        /\ res.out = None <=> Upper(res.bits) = U32_MAX
        /\ IsZero(res.bits) => res.out.some

\* C2 amended: Entity::from_bits(bits) is None iff bits [63:32] are zero
\* (so bits = 0 is rejected and 0xFFFFFFFF_xxxxxxxx decodes); every other
\* word decodes to Some(entity), whose index and generation fields hold the
\* two halves of bits.
C2_FromBitsRejectsZeroIndex ==
    res.op = "from_bits" =>
        /\ res.out = None <=> IsZero(Upper(res.bits))
        /\ IsZero(res.bits) => res.out = None
        /\ ~IsZero(Upper(res.bits)) =>
              /\ res.out.some
              /\ EntityIndex_to_bits(Entity_index(res.out.val)) = Upper(res.bits)
              /\ EntityGen_to_bits(Entity_generation(res.out.val)) = Lower(res.bits)

C2_Witness ==
    /\ res.op = "from_bits"
    /\ Upper(res.bits) = U32_MAX
    /\ res.out.some
    /\ IndexOf(res.out.val) = sub_1(U32_MAX)

\* C3 as stated: to_bits() is (index.get() << 32) | generation.get().
C3_Original ==
    res.op = "to_bits" =>
        res.out = EntityIndex_get(written.index) \o EntityGen_get(written.generation)

\* C3 amended: to_bits() is ((index.get() + 1) << 32) | generation.get(), the
\* internal (offset) index representation in the upper 32 bits; index 5 with
\* generation 2 encodes to (6 << 32) | 2.
C3_ToBitsOffsetIndex ==
    res.op = "to_bits" =>
        /\ Upper(res.out) = wrapping_add_1(EntityIndex_get(written.index))
        /\ Lower(res.out) = EntityGen_get(written.generation)
        /\ Len(res.out) = 8
        /\ (/\ EntityIndex_get(written.index) = <<0, 0, 0, 5>>
            /\ EntityGen_get(written.generation) = <<0, 0, 0, 2>>)
           => res.out = <<0, 0, 0, 6, 0, 0, 0, 2>>

C3_Witness ==
    /\ res.op = "to_bits"
    /\ EntityIndex_get(written.index) = <<0, 0, 0, 5>>
    /\ EntityGen_get(written.generation) = <<0, 0, 0, 2>>
    /\ res.out = <<0, 0, 0, 6, 0, 0, 0, 2>>

\* C4: on either endianness, <, <=, >, >= and cmp of two entities agree with
\* the lexicographic order of (index.get(), generation.get()).
C4_OrderingConsistency ==
    res.op = "compare" =>
        /\ res.lt = LexLt(res.a, res.b)
        /\ res.le = (LexLt(res.a, res.b) \/ LexEq(res.a, res.b))
        /\ res.gt = LexLt(res.b, res.a)
        /\ res.ge = (LexLt(res.b, res.a) \/ LexEq(res.a, res.b))
        /\ res.cmp = (IF LexLt(res.a, res.b) THEN "Less"
                      ELSE IF LexEq(res.a, res.b) THEN "Equal" ELSE "Greater")
        /\ res.partial_cmp = Some(res.cmp)

C4_Witness ==
    /\ res.op = "compare"
    /\ target_endian = "big"
    /\ res.lt
    /\ Lt(IndexOf(res.a), IndexOf(res.b))
    /\ Lt(GenOf(res.b), GenOf(res.a))

\* C5: the storage word of every entity that new, from_bits, the default or
\* the tuple conversions produce is non-zero.
C5_NonZeroStorage ==
    /\ ~IsZero(e.bits)
    /\ res.op = "from_bits" /\ res.out.some => ~IsZero(res.out.val.bits)
    /\ res.op = "compare" => ~IsZero(res.b.bits)

C5_Witness ==
    /\ res.op \in {"new", "from_index_gen", "from_gen_index"}
    /\ IsZero(EntityIndex_get(written.index))
    /\ IsZero(EntityGen_get(written.generation))
    /\ e.bits = <<0, 0, 0, 1, 0, 0, 0, 0>>

\* C6: EntityIndex::new(v) is None iff v = 2^32-1; otherwise it is Some(i)
\* with i.get() = v, i.to_bits() = v + 1 non-zero, and
\* EntityIndex::from_bits(i.to_bits()) = Some(i); new(2^32-2) is Some(MAX).
C6_IndexNewBoundary ==
    res.op = "index_new" =>
        /\ res.out = None <=> res.index = <<255, 255, 255, 255>>
        /\ res.out.some =>
              /\ EntityIndex_get(res.out.val) = res.index
              /\ ~IsZero(EntityIndex_to_bits(res.out.val))
              /\ Lt(res.index, EntityIndex_to_bits(res.out.val))
              /\ sub_1(EntityIndex_to_bits(res.out.val)) = res.index
              /\ EntityIndex_from_bits(EntityIndex_to_bits(res.out.val)) = res.out
        /\ res.index = <<255, 255, 255, 254>> => res.out = Some(EntityIndex_MAX)

C6_Witness ==
    /\ res.op = "index_new"
    /\ res.index = <<255, 255, 255, 254>>
    /\ res.out = Some(EntityIndex_MAX)
    /\ EntityIndex_to_bits(res.out.val) = <<255, 255, 255, 255>>

\* C7: T::try_from(index) is Ok(index.get()) when index.get() <= T::MAX and
\* an error otherwise, for u8, u16, i8, i16, i32, usize and isize; index 300
\* converts to the u16 300 (bytes 1, 44).
C7_NarrowingConversion ==
    res.op = "index_try_into" =>
        /\ (res.ty = "u16" /\ EntityIndex_get(res.index) = <<0, 0, 1, 44>>)
           => res.out = Ok([ty |-> "u16", neg |-> FALSE, mag |-> <<1, 44>>])
        /\ IF Le(Resize(EntityIndex_get(res.index), 16), MaxOf(res.ty))
           THEN /\ res.out.ok
                /\ res.out.val.ty = res.ty
                /\ ~res.out.val.neg
                /\ Len(res.out.val.mag) = BitsOf(res.ty) \div 8
                /\ Resize(res.out.val.mag, 16) = Resize(EntityIndex_get(res.index), 16)
           ELSE res.out = Err

C7_Witness ==
    /\ res.op = "index_try_into"
    /\ res.ty = "u8"
    /\ EntityIndex_get(res.index) = FromNat(300, 4)
    /\ res.out = Err

\* the conversion of res.value into an EntityIndex succeeded with get() = v
ConvertedTo(out, value) ==
    /\ out.ok
    /\ ~value.neg
    /\ Resize(EntityIndex_get(out.val), 16) = Resize(value.mag, 16)

\* C8 as stated: the conversion of every value of a source type narrower
\* than 32 bits succeeds with get() = v; from a 32-bit or wider type it
\* fails when v = 2^32-1.
C8_Original ==
    /\ res.op = "index_from" => ConvertedTo(Ok(res.out), res.value)
    /\ res.op = "index_try_from" =>
          IF BitsOf(res.value.ty) < 32
          THEN ConvertedTo(res.out, res.value)
          ELSE (~res.value.neg /\ Resize(res.value.mag, 16) = Resize(U32_MAX, 16))
                   => res.out = Err

\* C8 amended: the conversion of v succeeds, with get() = v, exactly when
\* 0 <= v <= 2^32-2: for every value of u8 and u16 and every non-negative
\* value of i8 and i16; it fails for every negative value and, from a 32-bit
\* or wider type, for every v >= 2^32-1.
C8_WideningConversion ==
    /\ res.op = "index_from" =>
          /\ res.out # Panic
          /\ ConvertedTo(Ok(res.out), res.value)
    /\ res.op = "index_try_from" =>
          IF ~res.value.neg /\ Lt(Resize(res.value.mag, 16), Resize(U32_MAX, 16))
          THEN ConvertedTo(res.out, res.value)
          ELSE res.out = Err

C8_Witness ==
    /\ res.op = "index_try_from"
    /\ res.value.ty = "i8"
    /\ res.value.neg
    /\ res.value.mag = <<1>>
    /\ res.out = Err

\* C9: Entity::PLACEHOLDER, the default, is Entity::new(EntityIndex::PLACEHOLDER,
\* EntityGen::MIN); its index is the placeholder EntityIndex::MAX = 2^32-2 and
\* its generation is 0; an index is the placeholder iff its value is 2^32-2.
C9_PlaceholderIdentity ==
    /\ Entity_default = Entity_PLACEHOLDER
    /\ Entity_PLACEHOLDER = Entity_new(EntityIndex_PLACEHOLDER, EntityGen_MIN)
    /\ EntityIndex_PLACEHOLDER = EntityIndex_MAX
    /\ EntityIndex_get(EntityIndex_MAX) = <<255, 255, 255, 254>>
    /\ res.op = "default" =>
          /\ e = Entity_PLACEHOLDER
          /\ EntityIndex_is_placeholder(Entity_index(e))
          /\ EntityGen_get(Entity_generation(e)) = <<0, 0, 0, 0>>
    /\ EntityIndex_is_placeholder(Entity_index(e)) <=> IndexOf(e) = <<255, 255, 255, 254>>

C9_Witness ==
    /\ res.op = "default"
    /\ e = Entity_PLACEHOLDER
    /\ EntityIndex_is_placeholder(Entity_index(e))
    /\ e.bits = <<255, 255, 255, 255, 0, 0, 0, 0>>

\* C10: an assignment to the index or the generation field changes that
\* field only; after any sequence of assignments the entity is
\* Entity::new(last index written, last generation written), its storage
\* word is non-zero and index(), generation() and to_bits() give the values
\* written.
C10_FieldMutation ==
    /\ e = Entity_new(written.index, written.generation)
    /\ ~IsZero(e.bits)
    /\ Entity_index(e) = written.index
    /\ Entity_generation(e) = written.generation
    /\ Entity_to_bits(e) = Entity_to_bits(Entity_new(written.index, written.generation))
    /\ Upper(Entity_to_bits(e)) = EntityIndex_to_bits(written.index)
    /\ Lower(Entity_to_bits(e)) = EntityGen_to_bits(written.generation)
    /\ res.op = "set_index" =>
          /\ Entity_index(e) = res.index
          /\ Entity_generation(e) = Entity_generation(res.before)
    /\ res.op = "set_generation" =>
          /\ Entity_generation(e) = res.generation
          /\ Entity_index(e) = Entity_index(res.before)

C10_Witness ==
    /\ res.op = "set_generation"
    /\ target_endian = "big"
    /\ Entity_generation(res.before) # res.generation
    /\ Entity_index(res.before) = written.index
    /\ IndexOf(e) = <<0, 0, 0, 255>>
    /\ GenOf(e) = <<255, 255, 255, 255>>

====
